---- MODULE Spec2Model ----
(***************************************************************************)
(* timemachine-exclude (src/src/tmexclude.ts): the pattern matcher, the    *)
(* recursive directory scan, and the populate / apply / update / list      *)
(* commands over a small file system.                                      *)
(*                                                                         *)
(* Strings are sequences of one-character strings.  The character sets     *)
(* hold letters, '.', '*', '/', '#' and the line feed; the other regular   *)
(* expression and shell metacharacters are outside the modelled alphabet.  *)
(***************************************************************************)
EXTENDS Integers, Sequences, FiniteSets, TLC

VARIABLES fs, cfg, xfile, last, fresh, scanOut, mName, mPattern, mResult

vars == <<fs, cfg, xfile, last, fresh, scanOut, mName, mPattern, mResult>>

(* ------------------------------ bounds --------------------------------- *)

\* longest directory name and pattern given to the pattern matcher
MaxLen == 3

\* number of directory-tree positions (the two configured roots included)
NumNodes == 8

(* ------------------------------ strings -------------------------------- *)

LF == "\n"

\* characters of the names and patterns given to the pattern matcher
MatchAlphabet == {"a", "A", ".", "*", LF}

RECURSIVE StringsUpTo(_, _)
StringsUpTo(alphabet, n) ==
    IF n = 0 THEN {<<>>}
    ELSE LET shorter == StringsUpTo(alphabet, n - 1)
         IN  shorter \cup {<<c>> \o s : c \in alphabet, s \in {t \in shorter : Len(t) = n - 1}}

NonEmptyStrings(alphabet, n) == StringsUpTo(alphabet, n) \ {<<>>}

\* String.prototype.includes for a single character
Includes(s, c) == \E i \in 1..Len(s) : s[i] = c

\* String.prototype.startsWith for a single character
StartsWith(s, c) == Len(s) >= 1 /\ s[1] = c

\* String.prototype.split('\n'): the pieces between line feeds, empty ones kept
RECURSIVE SplitFrom(_, _)
SplitFrom(s, piece) ==
    IF s = <<>> THEN <<piece>>
    ELSE IF Head(s) = LF THEN <<piece>> \o SplitFrom(Tail(s), <<>>)
    ELSE SplitFrom(Tail(s), Append(piece, Head(s)))

Split(s) == SplitFrom(s, <<>>)

\* path.join(dir, name) for a dir without trailing slash and a plain entry name
Join(dir, name) == dir \o <<"/">> \o name

(* --------------------------- pattern matcher --------------------------- *)

\* pattern.replace(/\*/g, '.*')
RECURSIVE ReplaceStar(_)
ReplaceStar(pattern) ==
    IF pattern = <<>> THEN <<>>
    ELSE (IF Head(pattern) = "*" THEN <<".", "*">> ELSE <<Head(pattern)>>)
         \o ReplaceStar(Tail(pattern))

\* one regular-expression atom against one character: '.' is any character
\* but a line terminator, any other atom of the alphabet is itself
AtomMatches(atom, c) == IF atom = "." THEN c # LF ELSE atom = c

\* new RegExp('^' + re + '$').test(s), for re made of atoms and starred atoms
RECURSIVE RegExpTest(_, _)
RegExpTest(re, s) ==
    IF re = <<>> THEN s = <<>>
    ELSE IF Len(re) >= 2 /\ re[2] = "*"
    THEN \/ RegExpTest(SubSeq(re, 3, Len(re)), s)
         \/ s # <<>> /\ AtomMatches(re[1], Head(s)) /\ RegExpTest(re, Tail(s))
    ELSE s # <<>> /\ AtomMatches(re[1], Head(s)) /\ RegExpTest(Tail(re), Tail(s))

\* the callback of patterns.some(...): one pattern against one entry name
PatternTest(pattern, name) ==
    IF Includes(pattern, "*")
    THEN RegExpTest(ReplaceStar(pattern), name)
    ELSE name = pattern

\* patterns.some(pattern => ...)
SomePattern(patterns, name) ==
    \E i \in 1..Len(patterns) : PatternTest(patterns[i], name)

(* ----------------------------- file system ----------------------------- *)

Nodes == 1..NumNodes

\* the directories named by the configured parentDirs
Roots == {1, 2}

RootPath(r) == IF r = 1 THEN <<"/", "p">> ELSE <<"/", "q">>

\* position n lies in the directory at position (n - 1) \div 2
ParentOf(n) == (n - 1) \div 2

\* the positions a directory enumerates, in enumeration order
KidPositions(n) == SelectSeq(<<2 * n + 1, 2 * n + 2>>, LAMBDA k : k \in Nodes)

NM == <<"n", "m">>
SRC == <<"s">>
WEIRD == <<"s", LF, "t">>
SSTAR == <<"s", "*">>
STAR == <<"*">>

\* entry names: siblings differ; a directory that can hold entries may carry
\* a name with a line feed in it
NameChoices(n) ==
    IF n % 2 = 0 THEN {NM}
    ELSE IF KidPositions(n) # <<>> THEN {SRC, WEIRD} ELSE {SRC}

Absent == [kind |-> "absent", name |-> <<>>]

\* what position n can hold, given the positions before it: "dir" is a
\* directory, "locked" a directory whose enumeration fails, "file" anything
\* that is not a directory
EntryChoices(t, n) ==
    IF n \in Roots
    THEN {[kind |-> k, name |-> RootPath(n)] : k \in {"absent", "dir", "locked"}}
    ELSE IF t[ParentOf(n)].kind = "dir"
    THEN {Absent} \cup {[kind |-> k, name |-> nm] :
                          k \in {"file", "dir", "locked"}, nm \in NameChoices(n)}
    ELSE {Absent}

RECURSIVE TreesOver(_)
TreesOver(n) ==
    IF n = 0 THEN {<<>>}
    ELSE UNION {{Append(t, e) : e \in EntryChoices(t, n)} : t \in TreesOver(n - 1)}

Trees == TreesOver(NumNodes)

RECURSIVE PathOf(_, _)
PathOf(f, n) ==
    IF n \in Roots THEN RootPath(n) ELSE Join(PathOf(f, ParentOf(n)), f[n].name)

\* fs.existsSync(path)
ExistsSync(f, path) ==
    \E n \in Nodes : f[n].kind # "absent" /\ PathOf(f, n) = path

\* Dirent.isDirectory()
IsDirectory(f, n) == f[n].kind \in {"dir", "locked"}

\* fs.readdirSync(dir, { withFileTypes: true }) of a readable directory
ReadDir(f, n) == SelectSeq(KidPositions(n), LAMBDA k : f[k].kind # "absent")

(* -------------------------------- scan --------------------------------- *)

NoThrow(results) == [threw |-> FALSE, results |-> results]
Throw == [threw |-> TRUE, results |-> <<>>]

RECURSIVE FindExcludedDirs(_, _, _, _)
RECURSIVE ScanEntries(_, _, _, _)
RECURSIVE ScanEntriesNoPrune(_, _, _, _)
RECURSIVE ScanEntriesUnshift(_, _, _, _)

\* the loop, were it to descend into a directory it has just recorded
ScanEntriesNoPrune(f, dir, entries, patterns) ==
    IF entries = <<>> THEN <<>>
    ELSE LET entry == Head(entries)
             fullPath == Join(dir, f[entry].name)
             sub == FindExcludedDirs(f, entry, fullPath, patterns)
             found ==
                 IF IsDirectory(f, entry)
                 THEN (IF SomePattern(patterns, f[entry].name) THEN <<fullPath>> ELSE <<>>)
                      \o (IF sub.threw THEN <<>> ELSE sub.results)
                 ELSE <<>>
         IN  found \o ScanEntriesNoPrune(f, dir, Tail(entries), patterns)

\* the loop, were it to put what an entry yields in front of the results
ScanEntriesUnshift(f, dir, entries, patterns) ==
    IF entries = <<>> THEN <<>>
    ELSE LET entry == Head(entries)
             fullPath == Join(dir, f[entry].name)
             found ==
                 IF IsDirectory(f, entry)
                 THEN IF SomePattern(patterns, f[entry].name)
                      THEN <<fullPath>>
                      ELSE LET sub == FindExcludedDirs(f, entry, fullPath, patterns)
                           IN  IF sub.threw THEN <<>> ELSE sub.results
                 ELSE <<>>
         IN  ScanEntriesUnshift(f, dir, Tail(entries), patterns) \o found

\* the for loop of findExcludedDirs over the entries of dir
ScanEntries(f, dir, entries, patterns) ==
    IF entries = <<>> THEN <<>>
    ELSE LET entry == Head(entries)
             fullPath == Join(dir, f[entry].name)
             found ==
                 IF IsDirectory(f, entry)
                 THEN IF SomePattern(patterns, f[entry].name)
                      THEN <<fullPath>>
                      ELSE LET sub == FindExcludedDirs(f, entry, fullPath, patterns)
                           IN  IF sub.threw THEN <<>> ELSE sub.results
                 ELSE <<>>
         IN  found \o ScanEntries(f, dir, Tail(entries), patterns)

\* findExcludedDirs(dir, patterns), dir being the path of position n
FindExcludedDirs(f, n, dir, patterns) ==
    IF f[n].kind # "dir" THEN Throw
    ELSE NoThrow(ScanEntries(f, dir, ReadDir(f, n), patterns))

PatternLists == {<<NM>>, <<SSTAR, NM>>, <<STAR>>}

NoConfig == [present |-> FALSE, parentDirs |-> <<>>, excludePatterns |-> <<>>]

Config(patterns) ==
    [present |-> TRUE, parentDirs |-> <<RootPath(1), RootPath(2)>>,
     excludePatterns |-> patterns]

\* the position a configured root path names
RootAt(path) == CHOOSE r \in Roots : RootPath(r) = path

NoFile == [exists |-> FALSE, text |-> <<>>]

Idle == [cmd |-> "none", outcome |-> "none", error |-> "none", rerun |-> FALSE,
         calls |-> <<>>, added |-> <<>>, skipped |-> <<>>, printed |-> <<>>]

NoScan == [root |-> 0, threw |-> FALSE, results |-> <<>>]

(* ------------------------- scan specification -------------------------- *)

ScanInit ==
    /\ fs \in Trees
    /\ cfg \in {Config(ps) : ps \in PatternLists}
    /\ xfile = NoFile
    /\ last = Idle
    /\ fresh = FALSE
    /\ scanOut = NoScan
    /\ mName = <<>> /\ mPattern = <<>> /\ mResult = "unset"

\* one call findExcludedDirs(dir, config.excludePatterns) on an existing root
ScanRoot(r) ==
    /\ scanOut.root = 0
    /\ ExistsSync(fs, RootPath(r))
    /\ LET out == FindExcludedDirs(fs, r, RootPath(r), cfg.excludePatterns)
       IN  scanOut' = [root |-> r, threw |-> out.threw, results |-> out.results]
    /\ UNCHANGED <<fs, cfg, xfile, last, fresh, mName, mPattern, mResult>>

ScanNext == \E r \in Roots : ScanRoot(r)

SpecScan == ScanInit /\ [][ScanNext]_vars

(* ------------------------ matcher specification ------------------------ *)

MatchInit ==
    /\ mName \in NonEmptyStrings(MatchAlphabet, MaxLen)
    /\ mPattern \in NonEmptyStrings(MatchAlphabet, MaxLen)
    /\ mResult = "unset"
    /\ fs = <<>> /\ cfg = NoConfig /\ xfile = NoFile /\ last = Idle
    /\ fresh = FALSE /\ scanOut = NoScan

\* one evaluation of the matcher callback on a directory name
MatchStep ==
    /\ mResult = "unset"
    /\ mResult' = IF PatternTest(mPattern, mName) THEN "match" ELSE "nomatch"
    /\ UNCHANGED <<fs, cfg, xfile, last, fresh, scanOut, mName, mPattern>>

MatchNext == MatchStep

SpecMatch == MatchInit /\ [][MatchNext]_vars

(* ------------------------------ commands ------------------------------- *)

\* the values of new Date().toISOString() a run can see
Stamps == {"0", "1"}

\* the header written by populateExclusions: a '#' comment line holding the
\* generation time, then an empty line
Header(ts) == <<"#", ts, LF, LF>>

File(text) == [exists |-> TRUE, text |-> text]

\* excludedDirs.forEach(excludedDir => fs.appendFileSync(file, excludedDir + '\n'))
RECURSIVE AppendAll(_, _)
AppendAll(text, excludedDirs) ==
    IF excludedDirs = <<>> THEN text
    ELSE AppendAll(text \o Head(excludedDirs) \o <<LF>>, Tail(excludedDirs))

\* the loop of populateExclusions over config.parentDirs; an exception of
\* findExcludedDirs leaves the loop with the text appended so far
RECURSIVE PopulateLoop(_, _, _, _)
PopulateLoop(f, dirs, patterns, text) ==
    IF dirs = <<>> THEN [threw |-> FALSE, text |-> text]
    ELSE LET dir == Head(dirs)
         IN  IF ExistsSync(f, dir)
             THEN LET out == FindExcludedDirs(f, RootAt(dir), dir, patterns)
                  IN  IF out.threw THEN [threw |-> TRUE, text |-> text]
                      ELSE PopulateLoop(f, Tail(dirs), patterns, AppendAll(text, out.results))
             ELSE PopulateLoop(f, Tail(dirs), patterns, text)

\* populateExclusions(), were the header appended to the file in place
PopulateRunAppend(f, c, file, ts) ==
    IF ~c.present THEN [error |-> "ConfigMissing", file |-> file]
    ELSE LET run == PopulateLoop(f, c.parentDirs, c.excludePatterns,
                                 file.text \o Header(ts))
         IN  [error |-> IF run.threw THEN "Readdir" ELSE "none", file |-> File(run.text)]

\* populateExclusions(), were the header written before the configuration is
\* loaded
PopulateRunHeaderFirst(f, c, file, ts) ==
    IF ~c.present THEN [error |-> "ConfigMissing", file |-> File(Header(ts))]
    ELSE LET run == PopulateLoop(f, c.parentDirs, c.excludePatterns, Header(ts))
         IN  [error |-> IF run.threw THEN "Readdir" ELSE "none", file |-> File(run.text)]

\* populateExclusions(): loadConfig, then the header, then the loop
PopulateRun(f, c, file, ts) ==
    IF ~c.present THEN [error |-> "ConfigMissing", file |-> file]
    ELSE LET run == PopulateLoop(f, c.parentDirs, c.excludePatterns, Header(ts))
         IN  [error |-> IF run.threw THEN "Readdir" ELSE "none", file |-> File(run.text)]

\* the lines a reader of the exclusion file keeps
IsEntry(line) == ~(line = <<>> \/ StartsWith(line, "#"))

\* the argument tmutil receives from execSync(`tmutil addexclusion "${line}"`):
\* inside double quotes the characters of the modelled alphabet stand for
\* themselves
ShellArg(line) == line

\* the loop of applyExclusions; execSync throws when tmutil exits non-zero,
\* which it does for the paths in failing
RECURSIVE ApplyLoop(_, _, _, _)
ApplyLoop(f, lines, failing, acc) ==
    IF lines = <<>> THEN acc
    ELSE LET line == Head(lines)
         IN  IF ~IsEntry(line) THEN ApplyLoop(f, Tail(lines), failing, acc)
             ELSE IF ExistsSync(f, line)
             THEN LET called == [acc EXCEPT !.calls = Append(@, ShellArg(line))]
                  IN  IF ShellArg(line) \in failing
                      THEN [called EXCEPT !.error = "Command"]
                      ELSE ApplyLoop(f, Tail(lines), failing,
                                     [called EXCEPT !.added = Append(@, line)])
             ELSE ApplyLoop(f, Tail(lines), failing,
                            [acc EXCEPT !.skipped = Append(@, line)])

NoApply == [error |-> "none", calls |-> <<>>, added |-> <<>>, skipped |-> <<>>]

\* applyExclusions()
ApplyRun(f, file, failing) ==
    IF ~file.exists THEN [NoApply EXCEPT !.error = "ListMissing"]
    ELSE ApplyLoop(f, Split(file.text), failing, NoApply)

\* the paths tmutil can be asked about: the entries of the file that exist
AskablePaths(f, file) ==
    IF ~file.exists THEN {}
    ELSE LET lines == Split(file.text)
         IN  {lines[i] : i \in {j \in 1..Len(lines) : IsEntry(lines[j]) /\ ExistsSync(f, lines[j])}}

\* the sets of paths tmutil can fail on in one run: none, or any one path
Failings(f, file) == {{}} \cup {{path} : path \in AskablePaths(f, file)}

Outcome(error) == IF error = "none" THEN "ok" ELSE "error"

\* an exclusion file left by an earlier run
StaleFile == File(Header("0") \o Join(RootPath(2), NM) \o <<LF>>)

\* the trees of the command runs hold directories only
CmdTrees == {t \in Trees : \A n \in Nodes : t[n].kind # "file"}

Init ==
    /\ fs \in CmdTrees
    /\ \/ cfg = Config(<<SSTAR, NM>>) /\ xfile = NoFile
       \/ cfg = NoConfig /\ xfile \in {NoFile, StaleFile}
    /\ last = Idle
    /\ fresh = FALSE
    /\ scanOut = NoScan
    /\ mName = <<>> /\ mPattern = <<>> /\ mResult = "unset"

\* timemachine-exclude populate
Populate ==
    \E ts \in Stamps :
        \E run \in {PopulateRun(fs, cfg, xfile, ts)} :
            /\ xfile' = run.file
            /\ last' = [Idle EXCEPT !.cmd = "populate", !.outcome = Outcome(run.error),
                                    !.error = run.error, !.rerun = fresh]
            /\ fresh' = IF run.error = "ConfigMissing" THEN fresh ELSE run.error = "none"
            /\ UNCHANGED <<fs, cfg, scanOut, mName, mPattern, mResult>>

\* timemachine-exclude apply
Apply ==
    \E failing \in Failings(fs, xfile) :
        \E run \in {ApplyRun(fs, xfile, failing)} :
            /\ last' = [Idle EXCEPT !.cmd = "apply", !.outcome = Outcome(run.error),
                                    !.error = run.error, !.calls = run.calls,
                                    !.added = run.added, !.skipped = run.skipped]
            /\ UNCHANGED <<fs, cfg, xfile, fresh, scanOut, mName, mPattern, mResult>>

\* updateExclusions(): populateExclusions, then, unless it threw, applyExclusions
UpdateRun(f, pop, failing) ==
    IF pop.error # "none" THEN [NoApply EXCEPT !.error = pop.error]
    ELSE ApplyRun(f, pop.file, failing)

\* timemachine-exclude update
Update ==
    \E ts \in Stamps :
        \E pop \in {PopulateRun(fs, cfg, xfile, ts)} :
            \E failing \in Failings(fs, pop.file) :
                \E run \in {UpdateRun(fs, pop, failing)} :
                    /\ xfile' = pop.file
                    /\ last' = [Idle EXCEPT !.cmd = "update", !.outcome = Outcome(run.error),
                                            !.error = run.error, !.rerun = fresh,
                                            !.calls = run.calls,
                                            !.added = run.added, !.skipped = run.skipped]
                    /\ fresh' = IF pop.error = "ConfigMissing" THEN fresh
                                ELSE pop.error = "none"
                    /\ UNCHANGED <<fs, cfg, scanOut, mName, mPattern, mResult>>

\* timemachine-exclude list
List ==
    /\ last' = IF ~xfile.exists
               THEN [Idle EXCEPT !.cmd = "list", !.outcome = "error",
                                 !.error = "ListMissing"]
               ELSE [Idle EXCEPT !.cmd = "list", !.outcome = "ok",
                                 !.printed = SelectSeq(Split(xfile.text), IsEntry)]
    /\ UNCHANGED <<fs, cfg, xfile, fresh, scanOut, mName, mPattern, mResult>>

RECURSIVE IsUnder(_, _)
IsUnder(n, a) == n = a \/ (n \notin Roots /\ IsUnder(ParentOf(n), a))

\* after a completed populate, the environment deletes the entry at position
\* n with all it holds
RemoveTree(n) ==
    /\ fresh
    /\ fs[n].kind # "absent"
    /\ fs' = [k \in Nodes |->
                IF IsUnder(k, n)
                THEN IF k \in Roots THEN [fs[k] EXCEPT !.kind = "absent"] ELSE Absent
                ELSE fs[k]]
    /\ last' = Idle
    /\ fresh' = FALSE
    /\ UNCHANGED <<cfg, xfile, scanOut, mName, mPattern, mResult>>

Next ==
    \/ Populate
    \/ Apply
    \/ Update
    \/ List
    \/ \E n \in Nodes : RemoveTree(n)

Spec == Init /\ [][Next]_vars

(* ------------------------ properties of the scan ----------------------- *)

\* the part of a path after its last '/'
RECURSIVE BaseName(_)
BaseName(path) ==
    IF ~Includes(path, "/") THEN path ELSE BaseName(Tail(path))

\* path b names something beneath the directory named by path a
IsBeneath(b, a) ==
    /\ Len(b) > Len(a) + 1
    /\ SubSeq(b, 1, Len(a) + 1) = a \o <<"/">>

ScanReturned == scanOut.root # 0 /\ ~scanOut.threw

\* C1: every path the scan returns names a directory whose base name matches
\* at least one pattern, and no returned path lies beneath another returned
\* path.
C1_ResultsMatchAndArePruned ==
    ScanReturned =>
        /\ \A i \in 1..Len(scanOut.results) :
              /\ \E n \in Nodes : /\ PathOf(fs, n) = scanOut.results[i]
                                  /\ fs[n].kind \in {"dir", "locked"}
              /\ SomePattern(cfg.excludePatterns, BaseName(scanOut.results[i]))
        /\ \A i, j \in 1..Len(scanOut.results) :
              ~IsBeneath(scanOut.results[j], scanOut.results[i])

\* a scan that returned a match which holds a matching directory itself
C1_Witness ==
    /\ ScanReturned
    /\ Len(scanOut.results) >= 2
    /\ \E n \in Nodes \ Roots :
          /\ fs[n].kind \in {"dir", "locked"}
          /\ SomePattern(cfg.excludePatterns, fs[n].name)
          /\ \E i \in 1..Len(scanOut.results) :
                scanOut.results[i] = PathOf(fs, ParentOf(n))

\* the directories a scan of root r has to report: below r, matching, under
\* no matching directory below r, and reached through readable directories
Reportable(r) ==
    {n \in Nodes :
        /\ n # r /\ IsUnder(n, r)
        /\ fs[n].kind \in {"dir", "locked"}
        /\ SomePattern(cfg.excludePatterns, fs[n].name)
        /\ \A a \in Nodes :
              (a # n /\ IsUnder(n, a) /\ IsUnder(a, r)) =>
                  /\ fs[a].kind = "dir"
                  /\ a # r => ~SomePattern(cfg.excludePatterns, fs[a].name)}

\* the entry of directory a on the way down to n
Branch(n, a) == CHOOSE k \in Nodes \ Roots : IsUnder(n, k) /\ ParentOf(k) = a

\* the deepest directory holding both n and m
Fork(n, m) ==
    CHOOSE a \in Nodes :
        /\ IsUnder(n, a) /\ IsUnder(m, a)
        /\ \A b \in Nodes : (IsUnder(n, b) /\ IsUnder(m, b)) => IsUnder(a, b)

\* n is discovered before m: where their ways part, the way to n takes the
\* entry enumerated first
DiscoveredBefore(n, m) ==
    /\ ~IsUnder(n, m) /\ ~IsUnder(m, n)
    /\ Branch(n, Fork(n, m)) < Branch(m, Fork(n, m))

NodeOfPath(path) == CHOOSE n \in Nodes : fs[n].kind # "absent" /\ PathOf(fs, n) = path

\* C9: the scan reports every reportable directory exactly once, nothing
\* else, and in discovery order.
C9_ScanCompleteAndOrdered ==
    ScanReturned =>
        /\ {scanOut.results[i] : i \in 1..Len(scanOut.results)}
              = {PathOf(fs, n) : n \in Reportable(scanOut.root)}
        /\ Len(scanOut.results) = Cardinality(Reportable(scanOut.root))
        /\ \A i, j \in 1..Len(scanOut.results) :
              i < j => DiscoveredBefore(NodeOfPath(scanOut.results[i]),
                                        NodeOfPath(scanOut.results[j]))

\* a scan that passed an unreadable directory and reported a nested match
\* before a match next to its parent
C9_Witness ==
    /\ ScanReturned
    /\ Len(scanOut.results) >= 2
    /\ Len(scanOut.results[1]) > Len(scanOut.results[2])
    /\ \E n \in Nodes : n # scanOut.root /\ IsUnder(n, scanOut.root)
                        /\ fs[n].kind = "locked"
                        /\ ~SomePattern(cfg.excludePatterns, fs[n].name)

(* --------------------- properties of the commands ---------------------- *)

\* the text of an exclusion file after its header
Body(file) == SubSeq(file.text, Len(Header("0")) + 1, Len(file.text))

\* what the scan of the i-th configured root yields: nothing for a root that
\* does not exist or cannot be enumerated
RootYield(f, c, i) ==
    LET dir == c.parentDirs[i]
    IN  IF ExistsSync(f, dir)
        THEN FindExcludedDirs(f, RootAt(dir), dir, c.excludePatterns).results
        ELSE <<>>

\* the scan results of the first k configured roots, in root order
RECURSIVE YieldUpTo(_, _, _)
YieldUpTo(f, c, k) ==
    IF k = 0 THEN <<>> ELSE YieldUpTo(f, c, k - 1) \o RootYield(f, c, k)

AllYield(f, c) == YieldUpTo(f, c, Len(c.parentDirs))

\* one '\n'-terminated line per path
RECURSIVE AsLines(_)
AsLines(paths) ==
    IF paths = <<>> THEN <<>> ELSE Head(paths) \o <<LF>> \o AsLines(Tail(paths))

\* the entries a reader takes from the file
Entries(file) == SelectSeq(Split(file.text), IsEntry)

SomeUnreadable(f) == \E n \in Nodes : f[n].kind = "locked"

\* C2: when the exclusion command fails for one entry, apply still hands
\* every existing entry to the command and works through the whole list.
C2_ApplyContinuesAfterFailure ==
    (last.cmd = "apply" /\ last.error = "Command") =>
        /\ last.calls = SelectSeq(Entries(xfile), LAMBDA e : ExistsSync(fs, e))
        /\ Len(last.calls) + Len(last.skipped) = Len(Entries(xfile))

\* C3: with an unreadable directory in the way, populate still completes and
\* writes every match found in the readable directories.
C3_UnreadableOnlySkipsSubtree ==
    (last.cmd = "populate" /\ cfg.present /\ SomeUnreadable(fs)) =>
        /\ last.outcome = "ok"
        /\ xfile.exists
        /\ Body(xfile) = AsLines(AllYield(fs, cfg))

\* C4: a populate run that completes leaves the header followed by the scan
\* results of the existing roots in root order, one per line, whatever the
\* file held before; run again on an unchanged file system it leaves the same
\* lines after the header.
C4_PopulateRewritesList ==
    [][(last'.cmd = "populate" /\ last'.outcome = "ok") =>
          /\ xfile'.exists
          /\ \E ts \in Stamps : xfile'.text = Header(ts) \o AsLines(AllYield(fs', cfg'))
          /\ last'.rerun => Body(xfile') = Body(xfile)]_vars

\* a completed second populate run on an unchanged file system for which
\* both roots yield a path
C4_Witness ==
    /\ last.cmd = "populate" /\ last.outcome = "ok" /\ last.rerun
    /\ RootYield(fs, cfg, 1) # <<>>
    /\ RootYield(fs, cfg, 2) # <<>>

\* C5: what list prints, and what apply works through, after a completed
\* populate is the sequence of paths populate wrote.
C5_StoreRoundTrip ==
    (fresh /\ AllYield(fs, cfg) # <<>>) =>
        /\ last.cmd = "list" => last.printed = AllYield(fs, cfg)
        /\ (last.cmd = "apply" /\ last.error = "none") => last.added = AllYield(fs, cfg)

\* C7: apply hands each existing entry to the command once, in list order,
\* skips each missing entry, and its counts of applied, skipped and failed
\* entries add up to the number of entries.
C7_ApplyHandlesEveryEntry ==
    (last.cmd = "apply" /\ last.error # "ListMissing") =>
        /\ last.calls = SelectSeq(Entries(xfile), LAMBDA e : ExistsSync(fs, e))
        /\ last.skipped = SelectSeq(Entries(xfile), LAMBDA e : ~ExistsSync(fs, e))
        /\ Len(last.added) + Len(last.skipped)
             + (IF last.error = "Command" THEN 1 ELSE 0) = Len(Entries(xfile))

\* C8: populate and update without a configuration, apply and list without an
\* exclusion file, end in an error, call no command and leave the exclusion
\* file as it was.
C8_MissingPrerequisiteIsFatal ==
    [][(\/ last'.cmd \in {"populate", "update"} /\ ~cfg.present
        \/ last'.cmd \in {"apply", "list"} /\ ~xfile.exists) =>
          /\ last'.outcome = "error"
          /\ last'.calls = <<>>
          /\ last'.printed = <<>>
          /\ xfile' = xfile]_vars

\* update without a configuration, with an exclusion file in place
C8_Witness ==
    /\ last.cmd = "update" /\ last.error = "ConfigMissing"
    /\ ~cfg.present /\ xfile.exists

\* C10: when a populate run that got past the configuration ends, the
\* exclusion file holds what it held before or the complete new list.
C10_ListNeverPartial ==
    [][(last'.cmd = "populate" /\ last'.error # "ConfigMissing") =>
          \/ xfile' = xfile
          \/ xfile'.exists /\ Body(xfile') = AsLines(AllYield(fs', cfg'))]_vars

(* --------------------- properties of the matcher ----------------------- *)

\* the glob reading of a pattern: '*' stands for any sequence of characters,
\* every other character for itself, the whole name to be covered
RECURSIVE Glob(_, _)
Glob(pattern, name) ==
    IF pattern = <<>> THEN name = <<>>
    ELSE IF Head(pattern) = "*"
    THEN Glob(Tail(pattern), name) \/ (name # <<>> /\ Glob(pattern, Tail(name)))
    ELSE name # <<>> /\ Head(pattern) = Head(name) /\ Glob(Tail(pattern), Tail(name))

\* C6: the matcher's verdict is the glob reading of the pattern.
C6_MatcherIsGlob ==
    mResult # "unset" => (mResult = "match" <=> Glob(mPattern, mName))

====
